---- MODULE Spec2Model ----
(***************************************************************************)
(* A model of the live-blog summariser: the summariser adapter's response  *)
(* parsing (src/src/openai.ts), the live session of one audio connection   *)
(* and the simulation pipeline (src/src/server.ts).                        *)
(*                                                                         *)
(* JavaScript values are tagged records [t |-> tag, ...]:                  *)
(*   undefined, null, numbers, strings, arrays and objects.  A string is   *)
(* either a sequence of tokens (field v) or the JSON text of a value       *)
(* (field json), so that JSON.parse succeeds exactly on JSON texts.        *)
(***************************************************************************)
EXTENDS Integers, Sequences, FiniteSets, TLC

----------------------------------------------------------------------------
(* JavaScript values *)

Undef == [t |-> "undef"]
Null == [t |-> "null"]
Num(n) == [t |-> "num", v |-> n]
Str(s) == [t |-> "str", v |-> s]
JsonText(x) == [t |-> "str", json |-> x]
Arr(s) == [t |-> "arr", v |-> s]
Obj(f) == [t |-> "obj", v |-> f]

IsString(x) == x.t = "str"
IsArray(x) == x.t = "arr"
\* typeof x === "object" && x (null is excluded by the truthiness test)
IsObjectLike(x) == x.t \in {"obj", "arr"}

\* !x
Falsy(x) ==
  \/ x.t \in {"undef", "null"}
  \/ x.t = "num" /\ x.v = 0
  \/ x.t = "str" /\ "v" \in DOMAIN x /\ x.v = <<>>

\* key in x, for an object or an array x (none of the keys is an array index)
HasKey(x, key) == x.t = "obj" /\ key \in DOMAIN x.v

\* x.key (undefined when absent, also on arrays and strings)
Get(x, key) == IF HasKey(x, key) THEN x.v[key] ELSE Undef

\* x[0] of an array
First(x) == IF Len(x.v) > 0 THEN x.v[1] ELSE Undef

\* a || b
OrElse(a, b) == IF Falsy(a) THEN b ELSE a

Ok(x) == [kind |-> "ok", value |-> x]
Throw(e) == [kind |-> "throw", err |-> e]

\* JSON.parse(s) of a string s: only JSON texts parse
JsonParse(s) ==
  IF IsString(s) /\ "json" \in DOMAIN s THEN Ok(s.json)
  ELSE IF s.t \in {"num", "null"} THEN Ok(s)
  ELSE Throw("SyntaxError")

----------------------------------------------------------------------------
(* Strings as token sequences: a token is a whitespace character or a word *)

IsWs(tok) == tok \in {" ", "\n"}

RECURSIVE TrimStart(_)
\* s with its leading whitespace removed
TrimStart(s) ==
  IF s # <<>> /\ IsWs(Head(s)) THEN TrimStart(Tail(s)) ELSE s

RECURSIVE TrimEnd(_)
\* s with its trailing whitespace removed
TrimEnd(s) ==
  IF s # <<>> /\ IsWs(s[Len(s)]) THEN TrimEnd(SubSeq(s, 1, Len(s) - 1)) ELSE s

\* String.prototype.trim
Trim(s) == TrimEnd(TrimStart(s))

\* String(x) as Array.prototype.join and template literals apply it
ToStr(x) ==
  CASE x.t = "str" /\ "v" \in DOMAIN x -> x.v
    [] x.t = "str" -> <<"<json>">>
    [] x.t = "num" -> <<"<num>">>
    [] x.t \in {"undef", "null"} -> <<>>
    [] OTHER -> <<"<object>">>

RECURSIVE JoinFrom(_, _, _)
JoinFrom(items, sep, i) ==
  IF i > Len(items) THEN <<>>
  ELSE IF i = Len(items) THEN ToStr(items[i])
  ELSE ToStr(items[i]) \o sep \o JoinFrom(items, sep, i + 1)

\* Array.prototype.join(sep) of an array's elements
Join(items, sep) == JoinFrom(items, sep, 1)

----------------------------------------------------------------------------
(* The summariser's possible answers: the JSON payloads and the envelopes  *)
(* that carry them                                                          *)

H1 == <<"Keynote">>
H2 == <<"Demo">>
StrArr(ss) == Arr([i \in 1..Len(ss) |-> Str(ss[i])])

CardFull ==
  Obj([headline |-> Str(H1), bullets |-> StrArr(<<<<"b1">>, <<"b2">>>>),
       quotes |-> StrArr(<<<<"q1">>>>), entities |-> StrArr(<<<<"e1">>>>)])
CardOther ==
  Obj([headline |-> Str(H2), bullets |-> StrArr(<<<<"b3">>>>),
       quotes |-> StrArr(<<>>), entities |-> StrArr(<<>>)])
CardEmpty ==
  Obj([headline |-> Str(<<>>), bullets |-> StrArr(<<>>),
       quotes |-> StrArr(<<>>), entities |-> StrArr(<<>>)])
CardBlankHeadline ==
  Obj([headline |-> Str(<<" ">>), bullets |-> StrArr(<<<<"b1">>>>),
       quotes |-> StrArr(<<>>), entities |-> StrArr(<<>>)])
CardNoEntities ==
  Obj([headline |-> Str(H1), bullets |-> StrArr(<<<<"b1">>>>),
       quotes |-> StrArr(<<>>)])
CardNoHeadline ==
  Obj([bullets |-> StrArr(<<<<"b1">>>>), quotes |-> StrArr(<<>>),
       entities |-> StrArr(<<>>)])
CardBulletsString ==
  Obj([headline |-> Str(H2), bullets |-> Str(<<"b1">>),
       quotes |-> StrArr(<<>>), entities |-> StrArr(<<>>)])
CardHeadlineNumber ==
  Obj([headline |-> Num(7), bullets |-> StrArr(<<>>),
       quotes |-> StrArr(<<>>), entities |-> StrArr(<<>>)])

\* JSON values that obey the schema both entry points request
WellFormedCards == {CardFull, CardOther, CardEmpty, CardBlankHeadline}

\* maxItems of bullets in jsonSchema, schema.ts:17
MaxBullets == 5

\* An answer with one bullet more than the schema allows
CardSixBullets ==
  Obj([headline |-> Str(H1),
       bullets |-> StrArr([i \in 1..(MaxBullets + 1) |-> <<"b1">>]),
       quotes |-> StrArr(<<>>), entities |-> StrArr(<<>>)])

\* An answer that echoes a time window of its own
CardEchoTimes ==
  Obj([headline |-> Str(H2), bullets |-> StrArr(<<<<"b3">>>>),
       quotes |-> StrArr(<<>>), entities |-> StrArr(<<>>),
       time_start |-> Num(100), time_end |-> Num(200)])
\* JSON objects that break it
MalformedCards ==
  {CardNoEntities, CardNoHeadline, CardBulletsString, CardHeadlineNumber}
JsonValues == WellFormedCards \cup MalformedCards \cup {Null, Num(5), Arr(<<>>)}

\* What the model may put where the answer's text is expected
Payloads ==
  {JsonText(x) : x \in JsonValues} \cup {Str(<<"not json">>), Str(<<>>)}

\* The shapes of resp.output[0] around a payload p
EnvShapes ==
  {"contentString", "contentArrayString", "message", "contentNoType",
   "contentOtherType", "contentNested", "outputText", "typeText",
   "textObject", "bareString", "absent", "emptyObject", "emptyContent",
   "refusal"}

Envelope(shape, p) ==
  CASE shape = "contentString" -> Obj([content |-> p])
    [] shape = "contentArrayString" -> Obj([content |-> Arr(<<p>>)])
    [] shape = "message" ->
         Obj([type |-> Str(<<"message">>),
              content |-> Arr(<<Obj([type |-> Str(<<"output_text">>), text |-> p])>>)])
    [] shape = "contentNoType" -> Obj([content |-> Arr(<<Obj([text |-> p])>>)])
    [] shape = "contentOtherType" ->
         Obj([content |-> Arr(<<Obj([type |-> Str(<<"text">>), text |-> p])>>)])
    [] shape = "contentNested" ->
         Obj([content |-> Arr(<<Obj([content |-> Arr(<<Obj([text |-> p])>>)])>>)])
    [] shape = "outputText" -> Obj([output_text |-> p])
    [] shape = "typeText" -> Obj([type |-> Str(<<"output_text">>), text |-> p])
    [] shape = "textObject" ->
         Obj([text |-> Obj([type |-> Str(<<"output_text">>), text |-> p])])
    [] shape = "bareString" -> p
    [] shape = "absent" -> Undef
    [] shape = "emptyObject" -> Obj(<<>>)
    [] shape = "emptyContent" -> Obj([content |-> Arr(<<>>)])
    [] shape = "refusal" ->
         Obj([content |-> Arr(<<Obj([type |-> Str(<<"refusal">>),
                                      refusal |-> Str(<<"no">>)])>>)])

----------------------------------------------------------------------------
(* The summariser adapter: src/src/openai.ts *)

\* "content" in firstOutput and the like throw a TypeError on a primitive
IsPrimitive(x) == x.t \in {"str", "num"}

\* The candidate both entry points take out of resp.output[0]
Candidate(firstOutput) ==
  IF HasKey(firstOutput, "content")
  THEN LET c == firstOutput.v["content"]
           content == IF IsArray(c) THEN c ELSE Arr(<<c>>)
       IN First(content)
  ELSE IF HasKey(firstOutput, "output_text") THEN firstOutput.v["output_text"]
  ELSE IF HasKey(firstOutput, "text") THEN firstOutput.v["text"]
  ELSE firstOutput

\* candidate.type ?? "output_text"
TypeOrDefault(x) ==
  LET ty == Get(x, "type")
  IN IF ty.t \in {"undef", "null"} THEN Str(<<"output_text">>) ELSE ty

NoOutObj == [found |-> FALSE]
OutObj(ty, text) == [found |-> TRUE, type |-> ty, text |-> text]

\* summariseWindow's normalisation of the candidate to { type, text }
WindowOutObj(candidate) ==
  IF IsString(candidate) THEN OutObj(Str(<<"output_text">>), candidate)
  ELSE IF IsObjectLike(candidate)
  THEN IF HasKey(candidate, "text") /\ IsString(candidate.v["text"])
       THEN OutObj(TypeOrDefault(candidate), candidate.v["text"])
       ELSE IF HasKey(candidate, "content")
       THEN LET c == candidate.v["content"]
                inner == IF IsArray(c) THEN First(c) ELSE c
            IN IF IsString(inner) THEN OutObj(Str(<<"output_text">>), inner)
               ELSE IF IsObjectLike(inner) /\ HasKey(inner, "text")
               THEN OutObj(TypeOrDefault(inner), inner.v["text"])
               ELSE NoOutObj
       ELSE NoOutObj
  ELSE NoOutObj

\* summariseWindow, from the response's first output to its return value
summariseWindow(firstOutput) ==
  IF Falsy(firstOutput) THEN Throw("no textual output found")
  ELSE IF IsPrimitive(firstOutput) THEN Throw("TypeError")
  ELSE LET outObj == WindowOutObj(Candidate(firstOutput))
       IN IF ~outObj.found THEN Throw("no textual output found")
          ELSE IF outObj.type # Str(<<"output_text">>)
          THEN Throw("output not of type 'output_text'")
          ELSE JsonParse(outObj.text)

\* timerBasedSummarise's outText, before the JSON.stringify fallback
TimerOutText(candidate) ==
  IF IsString(candidate) THEN candidate
  ELSE IF ~Falsy(candidate) /\ ~Falsy(Get(candidate, "text"))
  THEN Get(candidate, "text")
  ELSE Undef

\* JSON.parse(outText): a string is parsed, an object is first turned into
\* "[object Object]"
TimerParse(outText) ==
  IF IsObjectLike(outText) THEN Throw("SyntaxError") ELSE JsonParse(outText)

\* The object timerBasedSummarise returns for a parsed answer
TimerResult(parsed) ==
  Obj([headline |-> OrElse(Get(parsed, "headline"), Str(<<>>)),
       bullets |-> OrElse(Get(parsed, "bullets"), Arr(<<>>)),
       quotes |-> OrElse(Get(parsed, "quotes"), Arr(<<>>)),
       entities |-> OrElse(Get(parsed, "entities"), Arr(<<>>))])

\* timerBasedSummarise, from the response's first output to its return value
timerBasedSummarise(firstOutput) ==
  IF Falsy(firstOutput) THEN Throw("No response from timer summariser")
  ELSE IF IsPrimitive(firstOutput) THEN Throw("TypeError")
  ELSE LET text == TimerOutText(Candidate(firstOutput))
           outText == IF Falsy(text) THEN JsonText(firstOutput) ELSE text
           parsed == TimerParse(outText)
       IN IF parsed.kind = "throw"
          THEN Throw("Failed to parse timer summariser output as JSON")
          ELSE IF Falsy(parsed.value) \/ ~IsObjectLike(parsed.value)
          THEN Throw("Unexpected timer summariser shape")
          ELSE Ok(TimerResult(parsed.value))

----------------------------------------------------------------------------
(* Bounds of the model *)

\* what one connection takes in from outside, in all: the messages it
\* receives, the segment files its flushes yield, the summariser calls it makes
MaxInputs == 5
\* segments of the simulated file
MaxSimFiles == 3
\* viewers that may subscribe to the stream, and events published to them
MaxViewers == 2
MaxEvents == 2

\* Texts the transcriber may return for one segment
Texts == {<<" ">>, <<"w1">>, <<"w2">>}

\* Byte lengths of one audio message
AudioLens == {2}

----------------------------------------------------------------------------
(* State *)

VARIABLES
  \* the summariser adapter on its own
  pPayload, pShape, pWindow, pTimer,
  \* one live connection (the closure of wss.on("connection")), server.ts:66-84
  audioBuffers, pcmBuffers, timer, summaryTimer, closed,
  completeTranscript, previousSummary, cfg,
  \* the timeouts of this connection that the event loop holds
  timeouts,
  \* promises in flight: processBuffer runs and summary cycles
  runs, cycles,
  \* the file system: temp audio files and segment directories, by batch
  tmpFiles, segDirs,
  \* the broadcast hub: every event published, in order
  sent,
  \* the viewers subscribed to /stream in the order they were added, what
  \* each has received, and the last broadcast's course
  clients, received, pub,
  \* the simulation pipeline, server.ts:301-352
  argv, simPc, simFiles, simI, clock, transcriptHistory, simCalls, waited,
  \* bookkeeping: counters, the batch of each transcript append, the last step,
  \* promise rejections nobody handles
  inputs, nextBatch, nextCycle, nextId, appended, last, unhandled

parseVars == <<pPayload, pShape, pWindow, pTimer>>
connVars ==
  <<audioBuffers, pcmBuffers, timer, summaryTimer, closed,
    completeTranscript, previousSummary, cfg, timeouts>>
flightVars == <<runs, cycles, tmpFiles, segDirs>>
simVars ==
  <<argv, simPc, simFiles, simI, clock, transcriptHistory, simCalls, waited>>
bookVars == <<inputs, nextBatch, nextCycle, nextId, appended, last, unhandled>>
hubVars == <<clients, received, pub>>
vars == <<parseVars, hubVars, connVars, flightVars, sent, simVars, bookVars>>

NotRun == [kind |-> "notrun"]
NoResult == [kind |-> "none"]
Step(op) == [op |-> op, resp |-> Undef, result |-> NoResult]
\* the step of the message handler on message m
StepOn(op, m) == [op |-> op, resp |-> m, result |-> NoResult]

----------------------------------------------------------------------------
(* Connection config and messages: server.ts:76-84, 212-289 *)

DefaultSampleRate == 16000
DefaultChannels == 1
DefaultClientChunkMs == 250
DefaultSummaryWords == 40
DefaultSegmentSeconds == 15
DefaultProcessIntervalMs == 10000
DefaultSummaryIntervalMs == 10000

DefaultCfg ==
  [format |-> "null", sampleRate |-> DefaultSampleRate,
   channels |-> DefaultChannels, name |-> "null",
   clientChunkMs |-> DefaultClientChunkMs,
   summaryWords |-> DefaultSummaryWords,
   segmentSeconds |-> DefaultSegmentSeconds,
   processIntervalMs |-> DefaultProcessIntervalMs,
   summaryIntervalMs |-> DefaultSummaryIntervalMs]

\* A handshake's fields; a field the message omits is "" or 0, which the
\* handler's `msg.x || current` treats exactly like an omitted one
HsBare ==
  [format |-> "", sampleRate |-> 0, channels |-> 0, name |-> "",
   clientChunkMs |-> 0, summaryWords |-> 0, segmentSeconds |-> 0,
   processIntervalMs |-> 0, summaryIntervalMs |-> 0]
HsPcm ==
  [HsBare EXCEPT !.format = "s16le", !.sampleRate = 48000, !.channels = 2,
                 !.name = "talk", !.summaryWords = 2,
                 !.summaryIntervalMs = 5000]
HsWebm ==
  [HsBare EXCEPT !.format = "webm", !.summaryWords = 1, !.segmentSeconds = 5,
                 !.processIntervalMs = 1000, !.clientChunkMs = 100]
Handshakes == {HsBare, HsPcm, HsWebm}

\* The messages a connection may receive: frame is how ws delivers it,
\* kind what its bytes are
Messages ==
  {[frame |-> f, kind |-> "handshake", hs |-> h, len |-> 2] :
      f \in {"text", "binary"}, h \in Handshakes}
  \cup {[frame |-> "binary", kind |-> "audio", hs |-> HsBare, len |-> n] :
          n \in AudioLens}
  \cup {[frame |-> "text", kind |-> k, hs |-> HsBare, len |-> 2] :
          k \in {"json", "garbage"}}

\* a || b on strings and numbers of a handshake
OrStr(a, b) == IF a = "" THEN b ELSE a
OrNum(a, b) == IF a = 0 THEN b ELSE a

\* The config after a handshake, server.ts:218-228 and 247-255
ApplyHandshake(c, h) ==
  [format |-> OrStr(h.format, "null"),
   sampleRate |-> OrNum(h.sampleRate, c.sampleRate),
   channels |-> OrNum(h.channels, c.channels),
   name |-> OrStr(h.name, "null"),
   clientChunkMs |-> OrNum(h.clientChunkMs, c.clientChunkMs),
   summaryWords |-> OrNum(h.summaryWords, c.summaryWords),
   segmentSeconds |-> OrNum(h.segmentSeconds, c.segmentSeconds),
   processIntervalMs |-> OrNum(h.processIntervalMs, c.processIntervalMs),
   summaryIntervalMs |-> OrNum(h.summaryIntervalMs, c.summaryIntervalMs)]

\* Whether the message handler takes m for the handshake: a text frame is
\* parsed, a binary frame only when its text starts with { and holds "format"
IsHandshake(m) ==
  /\ m.kind = "handshake"
  /\ m.frame = "binary" => m.hs.format # ""

\* JSON.parse of a text frame throws: the handler logs and returns
ParseThrows(m) == m.frame = "text" /\ m.kind = "garbage"

\* A startSummaryTimer that sets the new interval and leaves the old one
\* running
startSummaryTimer_NoClear(st, ms) ==
  [state |-> "active", ms |-> ms,
   orphans |-> st.orphans + (IF st.state = "active" THEN 1 ELSE 0)]

\* startSummaryTimer, server.ts:89-91: the old interval is cleared, then a
\* new one is set with the current summaryIntervalMs. summaryTimer holds the
\* handle's state and period; orphans counts the intervals the event loop
\* still runs that summaryTimer no longer refers to
startSummaryTimer(st, ms) ==
  [state |-> "active", ms |-> ms, orphans |-> st.orphans]

\* timer = null: no handle is stored (a handle is the positive number of the
\* message that armed it)
NoTimer == 0

\* setTimeout(callback, ms): the handle the event loop holds until it fires
\* or is cleared
Timeout(id, ms) == [id |-> id, ms |-> ms]

\* A handler that arms a timeout on every audio message
ArmsTimer_Always(t) == TRUE

\* if (!timer): the handler arms the ingest-flush timeout
ArmsTimer(t) == t = NoTimer

\* A close handler that leaves the timeout to fire
clearTimeout_Forgotten(pending, t) == pending

\* if (timer) clearTimeout(timer): the handle stored in timer is taken from
\* the event loop; clearing one that has fired does nothing
clearTimeout(pending, t) == {h \in pending : h.id # t}

\* if (summaryTimer) clearInterval(summaryTimer)
clearInterval(st) ==
  IF st.state = "active" THEN [st EXCEPT !.state = "cleared"] ELSE st

----------------------------------------------------------------------------
(* The summary cycle's input: server.ts:95-96 *)

RECURSIVE SplitWords(_, _, _)
\* The maximal runs of non-whitespace tokens of s, in order; cur is the run
\* being read, acc the runs read
SplitWords(s, cur, acc) ==
  IF s = <<>> THEN (IF cur = <<>> THEN acc ELSE Append(acc, cur))
  ELSE IF IsWs(Head(s))
  THEN SplitWords(Tail(s), <<>>, IF cur = <<>> THEN acc ELSE Append(acc, cur))
  ELSE SplitWords(Tail(s), Append(cur, Head(s)), acc)

\* s.trim().split(/\s+/).filter(w => w.length > 0)
Words(s) == SplitWords(Trim(s), <<>>, <<>>)

\* A slice that keeps the first n words
SliceLast_First(words, n) ==
  SubSeq(words, 1, IF Len(words) > n THEN n ELSE Len(words))

\* words.slice(-n)
SliceLast(words, n) ==
  LET len == Len(words)
      from == IF n > 0 THEN (IF len > n THEN len - n ELSE 0)
              ELSE (IF -n < len THEN -n ELSE len)
  IN SubSeq(words, from + 1, len)

RECURSIVE JoinWords(_, _)
\* words.join(' ')
JoinWords(words, i) ==
  IF i > Len(words) THEN <<>>
  ELSE IF i = Len(words) THEN words[i]
  ELSE words[i] \o <<" ">> \o JoinWords(words, i + 1)

\* lastWords of a tick
LastWords(transcript, n) == JoinWords(SliceLast(Words(transcript), n), 1)

\* A tick that lacks the test for an empty tail
NoWordsYet_NeverSkips(lastWords) == FALSE

\* lastWords.length === 0: the tick returns without calling the summariser
NoWordsYet(lastWords) == lastWords = <<>>

\* The rendering stored in previousSummary, server.ts:126
Rendering(headline, bullets) ==
  <<"Headline: ">> \o ToStr(headline) \o <<"\nBullets: ">>
    \o Join(bullets.v, <<"; ">>)

----------------------------------------------------------------------------
(* The broadcast hub: server.ts:44-47 *)

Event(name, data) == [event |-> name, data |-> data]

\* broadcast(event, data): the event goes out to the viewers
broadcast(log, name, data) == Append(log, Event(name, data))

\* The card a live summary cycle broadcasts, server.ts:115-122
LiveChunk(id, summary) ==
  Obj([id |-> Num(id),
       headline |-> summary.v["headline"],
       bullets |-> OrElse(summary.v["bullets"], Arr(<<>>)),
       quotes |-> OrElse(summary.v["quotes"], Arr(<<>>)),
       entities |-> OrElse(summary.v["entities"], Arr(<<>>)),
       revision_of |-> Null])

\* A headline test that lets any string through
HeadlineTest_NoTrimNoEmpty(summary) ==
  IF IsString(summary.v["headline"]) THEN "yes" ELSE "throw"

\* summary.headline && summary.headline.trim(): "yes", "no", or "throw" when
\* the headline is a truthy non-string, which has no trim
HeadlineTest(summary) ==
  LET h == summary.v["headline"]
  IN IF Falsy(h) THEN "no"
     ELSE IF ~IsString(h) THEN "throw"
     ELSE IF Trim(ToStr(h)) = <<>> THEN "no"
     ELSE "yes"

\* The viewers that may open /stream
Viewers == 1..MaxViewers

\* What c.res.write(payload) may do: deliver the event; fail without an
\* exception (the response is destroyed: write returns false); throw
WriteOutcomes == {"ok", "fail", "throw"}

Range(seq) == {seq[i] : i \in DOMAIN seq}

RECURSIVE WriteAll(_, _, _, _)
\* for (const c of clients) c.res.write(payload): the subscribers are
\* written to in insertion order, nothing catches an exception of write
WriteAll(subs, ev, outcome, got) ==
  IF subs = <<>> THEN [received |-> got, threw |-> FALSE]
  ELSE LET c == Head(subs)
       IN IF outcome[c] = "throw" THEN [received |-> got, threw |-> TRUE]
          ELSE WriteAll(Tail(subs), ev, outcome,
                        IF outcome[c] = "ok"
                        THEN [got EXCEPT ![c] = Append(@, ev)] ELSE got)

\* No broadcast to a viewer made yet
NoPublish == [targets |-> <<>>, failing |-> {}, threw |-> FALSE]

\* GET /stream by viewer v: clients.add({ id, res })
Subscribe(v) ==
  /\ v \in Viewers \ Range(clients)
  /\ clients' = Append(clients, v)
  /\ received' = [received EXCEPT ![v] = <<>>]
  /\ last' = Step("subscribe")
  /\ UNCHANGED <<parseVars, pub, connVars, flightVars, sent, simVars, inputs,
                 nextBatch, nextCycle, nextId, appended, unhandled>>

\* req.on("close") of viewer v: the subscriber is deleted from the set
Unsubscribe(v) ==
  /\ v \in Range(clients)
  /\ clients' = SelectSeq(clients, LAMBDA c : c # v)
  /\ last' = Step("unsubscribe")
  /\ UNCHANGED <<parseVars, received, pub, connVars, flightVars, sent, simVars,
                 inputs, nextBatch, nextCycle, nextId, appended, unhandled>>

\* broadcast(event, data) with viewers subscribed: the set of subscribers is
\* not changed by it
Publish(outcome) ==
  /\ Len(sent) < MaxEvents
  /\ LET ev == Event("chunk", Num(Len(sent) + 1))
         done == WriteAll(clients, ev, outcome, received)
     IN /\ sent' = broadcast(sent, ev.event, ev.data)
        /\ received' = done.received
        /\ pub' = [targets |-> clients,
                   failing |-> {c \in Range(clients) : outcome[c] # "ok"},
                   threw |-> done.threw]
  /\ last' = Step("publish")
  /\ UNCHANGED <<parseVars, clients, connVars, flightVars, simVars, inputs,
                 nextBatch, nextCycle, nextId, appended, unhandled>>

----------------------------------------------------------------------------
(* processBuffer, its synchronous part: server.ts:138-188 *)

RECURSIVE SumLens(_)
SumLens(bufs) == IF bufs = <<>> THEN 0 ELSE Head(bufs) + SumLens(Tail(bufs))

\* The branch processBuffer takes: the raw-PCM one or the container one
UsesPcm == pcmBuffers # <<>> \/ cfg.format = "s16le"

\* Buffer.alloc(44): the length of the canonical WAV header
WavHeaderBytes == 44
\* bytesPerSample of s16le
BytesPerSample == 2

\* What the header's fields hold, server.ts:151-168: the RIFF size at
\* offset 4, the format tag, the channel count, the sample rate, the byte
\* rate, the block align, the bit depth and the data length at offset 40
WavHeader(channels, sampleRate, dataSize) ==
  [bytes |-> WavHeaderBytes,
   riffSize |-> 36 + dataSize,
   audioFormat |-> 1,
   channels |-> channels,
   sampleRate |-> sampleRate,
   byteRate |-> sampleRate * (channels * BytesPerSample),
   blockAlign |-> channels * BytesPerSample,
   bitsPerSample |-> BytesPerSample * 8,
   dataSize |-> dataSize]

\* No header: the file starts with the bytes of the batch
NoHeader == [bytes |-> 0]

\* writeUInt16LE / writeUInt32LE take a value of their width; for any other
\* they throw a RangeError
FitsUInt(v, bits) ==
  /\ v >= 0
  /\ IF bits > 16 THEN v \div 2^16 < 2^(bits - 16) ELSE v < 2^bits

\* Whether every write into the header goes through
HeaderWritten(h) ==
  /\ FitsUInt(h.riffSize, 32) /\ FitsUInt(h.channels, 16)
  /\ FitsUInt(h.sampleRate, 32) /\ FitsUInt(h.byteRate, 32)
  /\ FitsUInt(h.blockAlign, 16) /\ FitsUInt(h.dataSize, 32)

\* The temp file a flush writes: in the PCM branch the 44-byte WAV header
\* and the bytes, or the bytes alone when a header write throws (the catch
\* at server.ts:172-176); in the container branch the bytes alone
TmpFile(usePcm, drained) ==
  LET h == WavHeader(cfg.channels, cfg.sampleRate, SumLens(drained))
      wav == usePcm /\ HeaderWritten(h)
  IN [wav |-> wav, header |-> IF wav THEN h ELSE NoHeader,
      dataSize |-> SumLens(drained), messages |-> Len(drained)]

NewRun(batch, file) ==
  [batch |-> batch, file |-> file, seconds |-> cfg.segmentSeconds,
   stage |-> "segmenting", files |-> 0, idx |-> 0, allText |-> <<>>]

\* processBuffer() returns at once when both buffers are empty
NothingToFlush == audioBuffers = <<>> /\ pcmBuffers = <<>>

\* processBuffer(): fsOk is whether the file system takes the temp file; when
\* it does not, writeFileSync throws out of processBuffer after the drain
processBuffer(fsOk) ==
  IF NothingToFlush
  THEN UNCHANGED <<audioBuffers, pcmBuffers, runs, tmpFiles, segDirs,
                   nextBatch, unhandled>>
  ELSE LET usePcm == UsesPcm
           drained == IF usePcm THEN pcmBuffers ELSE audioBuffers
       IN /\ pcmBuffers' = IF usePcm THEN <<>> ELSE pcmBuffers
          /\ audioBuffers' = IF usePcm THEN audioBuffers ELSE <<>>
          /\ nextBatch' = nextBatch + 1
          /\ IF fsOk
             THEN /\ runs' = runs \cup {NewRun(nextBatch, TmpFile(usePcm, drained))}
                  /\ tmpFiles' = tmpFiles \cup {nextBatch}
                  /\ segDirs' = segDirs \cup {nextBatch}
                  /\ UNCHANGED unhandled
             ELSE /\ unhandled' = unhandled \cup {"processBuffer"}
                  /\ UNCHANGED <<runs, tmpFiles, segDirs>>

\* Whether processBuffer(fsOk) throws
FlushThrows(fsOk) == ~NothingToFlush /\ ~fsOk

----------------------------------------------------------------------------
(* The connection's handlers: server.ts:212-297 *)

\* ws.on("message")
Receive(m) ==
  /\ ~closed
  /\ inputs < MaxInputs
  /\ inputs' = inputs + 1
  /\ IF IsHandshake(m)
     THEN /\ cfg' = ApplyHandshake(cfg, m.hs)
          /\ summaryTimer' = startSummaryTimer(summaryTimer, cfg'.summaryIntervalMs)
          /\ last' = StepOn("handshake", m)
          /\ UNCHANGED <<audioBuffers, pcmBuffers, timer, timeouts>>
     ELSE IF ParseThrows(m)
     THEN /\ last' = StepOn("badMessage", m)
          /\ UNCHANGED <<audioBuffers, pcmBuffers, timer, timeouts, cfg,
                         summaryTimer>>
     ELSE /\ IF cfg.format = "s16le"
             THEN /\ pcmBuffers' = Append(pcmBuffers, m.len)
                  /\ UNCHANGED audioBuffers
             ELSE /\ audioBuffers' = Append(audioBuffers, m.len)
                  /\ UNCHANGED pcmBuffers
          /\ IF ArmsTimer(timer)
             THEN /\ timer' = inputs'
                  /\ timeouts' = timeouts
                       \cup {Timeout(inputs', cfg.processIntervalMs)}
             ELSE UNCHANGED <<timer, timeouts>>
          /\ last' = StepOn("audio", m)
          /\ UNCHANGED <<cfg, summaryTimer>>
  /\ UNCHANGED <<parseVars, hubVars, closed, completeTranscript, previousSummary,
                 flightVars, sent, simVars, nextBatch, nextCycle, nextId,
                 appended, unhandled>>

\* The ingest-flush timeout h fires: processBuffer(); timer = null. When
\* processBuffer throws the assignment is not reached and timer keeps the
\* handle that has fired
TimerFire(h, fsOk) ==
  /\ h \in timeouts
  /\ timeouts' = timeouts \ {h}
  /\ processBuffer(fsOk)
  /\ timer' = IF FlushThrows(fsOk) THEN timer ELSE NoTimer
  /\ last' = Step("timerFire")
  /\ UNCHANGED <<parseVars, hubVars, summaryTimer, closed, completeTranscript,
                 previousSummary, cfg, cycles, sent, simVars, inputs,
                 nextCycle, nextId, appended>>

\* ws.on("close")
Close(fsOk) ==
  /\ ~closed
  /\ closed' = TRUE
  /\ timeouts' = clearTimeout(timeouts, timer)
  /\ summaryTimer' = clearInterval(summaryTimer)
  /\ processBuffer(fsOk)
  /\ last' = Step("close")
  /\ UNCHANGED <<parseVars, hubVars, timer, completeTranscript, previousSummary, cfg, cycles,
                 sent, simVars, inputs, nextCycle, nextId, appended>>

----------------------------------------------------------------------------
(* processBuffer, the continuation of segmentFile: server.ts:188-209 *)

\* A slip of the append: the transcript is assigned, not added to
AppendTranscript_Assigns(transcript, allText) == Trim(allText)

\* completeTranscript += (completeTranscript ? " " : "") + allText.trim()
AppendTranscript(transcript, allText) ==
  transcript \o (IF transcript # <<>> THEN <<" ">> ELSE <<>>) \o Trim(allText)

\* The end of the callback once every file is transcribed: the text is
\* appended to the running transcript when it is not blank, then cleanup
FinishRun(r, allText) ==
  /\ IF Trim(allText) # <<>>
     THEN /\ completeTranscript' = AppendTranscript(completeTranscript, allText)
          /\ appended' = Append(appended, r.batch)
     ELSE UNCHANGED <<completeTranscript, appended>>
  /\ tmpFiles' = tmpFiles \ {r.batch}
  /\ runs' = runs \ {r}

\* segmentFile resolves with n files; with none the loop body never runs.
\* A temp file without audio bytes yields no segment to transcribe.
SegmentDone(r, n) ==
  /\ r \in runs /\ r.stage = "segmenting"
  /\ r.file.dataSize = 0 => n = 0
  /\ inputs + n <= MaxInputs
  /\ inputs' = inputs + n
  /\ IF n = 0
     THEN FinishRun(r, <<>>)
     ELSE /\ runs' = (runs \ {r})
                       \cup {[r EXCEPT !.stage = "transcribing", !.files = n]}
          /\ UNCHANGED <<completeTranscript, appended, tmpFiles>>
  /\ last' = Step("segmentDone")
  /\ UNCHANGED <<parseVars, hubVars, audioBuffers, pcmBuffers, timer, timeouts, summaryTimer,
                 closed, previousSummary, cfg, cycles, segDirs, sent, simVars,
                 nextBatch, nextCycle, nextId, unhandled>>

\* segmentFile rejects: processBuffer attaches no rejection handler
SegmentFail(r) ==
  /\ r \in runs /\ r.stage = "segmenting"
  /\ runs' = runs \ {r}
  /\ unhandled' = unhandled \cup {"segmentFile"}
  /\ last' = Step("segmentFail")
  /\ UNCHANGED <<parseVars, hubVars, connVars, cycles, tmpFiles, segDirs, sent, simVars,
                 inputs, nextBatch, nextCycle, nextId, appended>>

\* A payload that counts the segments from 1
TranscriptPiece_FromOne(r, text) ==
  [index |-> r.idx + 1, batch |-> r.batch, text |-> text]

\* { index: idx, path, text }, server.ts:197: the path is that of segment
\* idx of the flush's batch
TranscriptPiece(r, text) ==
  [index |-> r.idx, batch |-> r.batch, text |-> text]

\* transcribeChunk(files[idx]) resolves with text
TranscribeDone(r, text) ==
  /\ r \in runs /\ r.stage = "transcribing"
  /\ sent' = broadcast(sent, "transcript_piece", TranscriptPiece(r, text))
  /\ LET allText == r.allText \o (IF r.allText # <<>> THEN <<" ">> ELSE <<>>) \o text
     IN IF r.idx + 1 < r.files
        THEN /\ runs' = (runs \ {r})
                          \cup {[r EXCEPT !.idx = r.idx + 1, !.allText = allText]}
             /\ UNCHANGED <<completeTranscript, appended, tmpFiles>>
        ELSE FinishRun(r, allText)
  /\ last' = Step("transcribeDone")
  /\ UNCHANGED <<parseVars, hubVars, audioBuffers, pcmBuffers, timer, timeouts, summaryTimer,
                 closed, previousSummary, cfg, cycles, segDirs, simVars,
                 inputs, nextBatch, nextCycle, nextId, unhandled>>

\* transcribeChunk rejects: the callback throws, its promise is not handled
TranscribeFail(r) ==
  /\ r \in runs /\ r.stage = "transcribing"
  /\ runs' = runs \ {r}
  /\ unhandled' = unhandled \cup {"transcribeChunk"}
  /\ last' = Step("transcribeFail")
  /\ UNCHANGED <<parseVars, hubVars, connVars, cycles, tmpFiles, segDirs, sent, simVars,
                 inputs, nextBatch, nextCycle, nextId, appended>>

----------------------------------------------------------------------------
(* The summary cycle: server.ts:91-134 *)

\* What the summariser call may come back with in a live session: a
\* response's first output, or the rejection of the API call itself
ApiReject == [t |-> "reject"]
LiveResponses ==
  {Envelope("message", JsonText(c)) :
     c \in {CardFull, CardOther, CardEmpty, CardBlankHeadline, CardNoEntities,
            CardBulletsString, CardHeadlineNumber}}
  \cup {ApiReject}

\* await timerBasedSummarise(...), for what the API call came back with
TimerCall(outcome) ==
  IF outcome = ApiReject THEN Throw("API error")
  ELSE timerBasedSummarise(outcome)

\* An interval that ticks only while a flush timeout is pending
TickDue_WhileFlushPending == summaryTimer.state = "active" /\ timeouts # {}

\* The interval set at server.ts:91 is in the event loop: its callback runs
\* every summaryTimer.ms
TickDue == summaryTimer.state = "active"

\* The interval callback up to the await: a tick
SummaryTick ==
  /\ TickDue
  /\ LET lastWords == LastWords(completeTranscript, cfg.summaryWords)
     IN IF closed
        THEN /\ last' = Step("tickClosed")
             /\ UNCHANGED <<cycles, nextCycle, inputs>>
        ELSE IF NoWordsYet(lastWords)
        THEN /\ last' = Step("tickSkipped")
             /\ UNCHANGED <<cycles, nextCycle, inputs>>
        ELSE /\ inputs < MaxInputs
             /\ inputs' = inputs + 1
             /\ cycles' = cycles \cup
                  {[id |-> nextCycle, lastWords |-> lastWords,
                    previousSummary |-> previousSummary,
                    maxWords |-> cfg.summaryWords]}
             /\ nextCycle' = nextCycle + 1
             /\ last' = Step("tickCall")
  /\ UNCHANGED <<parseVars, hubVars, connVars, runs, tmpFiles, segDirs, sent, simVars,
                 nextBatch, nextId, appended, unhandled>>

\* A callback that refreshes the context outside the headline test
HandleSummary_AlwaysRefreshes(summary) ==
  /\ previousSummary' =
       IF IsArray(summary.v["bullets"])
       THEN Rendering(summary.v["headline"], summary.v["bullets"])
       ELSE previousSummary
  /\ IF HeadlineTest(summary) = "yes"
     THEN /\ sent' = broadcast(sent, "chunk", LiveChunk(nextId, summary))
          /\ nextId' = nextId + 1
     ELSE UNCHANGED <<sent, nextId>>

\* What the callback does with the summary once the await returns it
HandleSummary(summary) ==
  IF HeadlineTest(summary) = "yes"
  THEN /\ sent' = broadcast(sent, "chunk", LiveChunk(nextId, summary))
       /\ nextId' = nextId + 1
       /\ previousSummary' =
            IF IsArray(summary.v["bullets"])
            THEN Rendering(summary.v["headline"], summary.v["bullets"])
            ELSE previousSummary
  ELSE UNCHANGED <<sent, nextId, previousSummary>>

\* The interval callback from the await on: the call of cycle c comes back
CycleDone(c, outcome) ==
  /\ c \in cycles
  /\ cycles' = cycles \ {c}
  /\ LET result == TimerCall(outcome)
     IN /\ IF result.kind = "ok"
           THEN HandleSummary(result.value)
           ELSE UNCHANGED <<sent, nextId, previousSummary>>
        /\ last' = [op |-> "cycleDone", resp |-> outcome, result |-> result]
  /\ UNCHANGED <<parseVars, hubVars, audioBuffers, pcmBuffers, timer, timeouts, summaryTimer,
                 closed, completeTranscript, cfg, runs, tmpFiles, segDirs,
                 simVars, inputs, nextBatch, nextCycle, appended, unhandled>>

----------------------------------------------------------------------------
(* The simulation pipeline: server.ts:301-352 *)

\* The defaults of --chunk, --hold and --speed, server.ts:15-17
DefaultChunk == 15
DefaultHold == 1
DefaultSpeed == 1

\* --chunk, --hold and --speed values tried
ChunkSeconds == {10, 15, 20}
HoldSeconds == {0, 1}
Speeds == {1, 2}


WindowFloorSeconds == 30

Max(a, b) == IF a > b THEN a ELSE b

\* A rolling context without the floor
windowBackSeconds_NoFloor(chunk) == chunk * 2

\* windowBackSeconds, server.ts:306
windowBackSeconds(chunk) == Max(WindowFloorSeconds, chunk * 2)

\* The wall-clock milliseconds the loop waits for one segment: the playback
\* wait, server.ts:317-318, and the hold-back, server.ts:324
WaitMs(a) == Max(0, (a.chunk * 1000) \div a.speed) + a.hold * 1000

RECURSIVE JoinTexts(_, _)
\* texts.join("\n")
JoinTexts(texts, i) ==
  IF i > Len(texts) THEN <<>>
  ELSE IF i = Len(texts) THEN texts[i]
  ELSE texts[i] \o <<"\n">> \o JoinTexts(texts, i + 1)

RECURSIVE FilterWindow_InclusiveEnd(_, _)
\* A filter that also keeps the entry that ends at windowStart
FilterWindow_InclusiveEnd(history, windowStart) ==
  IF history = <<>> THEN <<>>
  ELSE (IF Head(history).end >= windowStart THEN <<Head(history).text>> ELSE <<>>)
         \o FilterWindow_InclusiveEnd(Tail(history), windowStart)

RECURSIVE FilterWindow(_, _)
\* history.filter(s => s.end > windowStart).map(s => s.text)
FilterWindow(history, windowStart) ==
  IF history = <<>> THEN <<>>
  ELSE (IF Head(history).end > windowStart THEN <<Head(history).text>> ELSE <<>>)
         \o FilterWindow(Tail(history), windowStart)

\* windowText of a step, server.ts:327-331
WindowText(history, end, chunk) ==
  JoinTexts(FilterWindow(history, Max(0, end - windowBackSeconds(chunk))), 1)

\* What summariseWindow's API call may come back with in the simulation
SimResponses ==
  {Envelope("message", JsonText(c)) :
     c \in {CardFull, CardNoEntities, CardSixBullets, CardEchoTimes}}
  \cup {Envelope("message", Str(<<"not json">>)),
        Envelope("emptyObject", Str(<<>>)), ApiReject}

\* await summariseWindow(...), for what the API call came back with
WindowCall(outcome) ==
  IF outcome = ApiReject THEN Throw("API error")
  ELSE summariseWindow(outcome)

\* { id: randomUUID(), ...summary, revision_of: null }
SimChunk(id, summary) ==
  LET own == IF summary.t = "obj" THEN summary.v ELSE <<>>
      keys == DOMAIN own \cup {"id", "revision_of"}
  IN Obj([k \in keys |->
            IF k = "revision_of" THEN Null
            ELSE IF k \in DOMAIN own THEN own[k]
            ELSE Num(id)])

\* A loop end that publishes nothing
SimEnd_Silent(log) == log

\* A loop that signals the end before its last card
SimEnd_BeforeLastCard(log) ==
  IF log = <<>> THEN <<Event("eof", [done |-> TRUE])>>
  ELSE SubSeq(log, 1, Len(log) - 1)
         \o <<Event("eof", [done |-> TRUE]), log[Len(log)]>>

\* After the loop: cleanup(dir); broadcast("eof")
SimEnd(log) == broadcast(log, "eof", [done |-> TRUE])

\* segmentFile(argv.file, argv.chunk) resolves with n files
SimSegmented(n) ==
  /\ simPc = "segmenting"
  /\ simFiles' = n
  /\ IF n = 0
     THEN /\ simPc' = "done"
          /\ sent' = SimEnd(sent)
     ELSE /\ simPc' = "transcribing"
          /\ UNCHANGED sent
  /\ last' = Step("simSegmented")
  /\ UNCHANGED <<parseVars, hubVars, connVars, flightVars, argv, waited, simI, clock,
                 transcriptHistory, simCalls, inputs, nextBatch, nextCycle,
                 nextId, appended, unhandled>>

\* An await of the pipeline rejects: the async function has no try/catch and
\* nothing handles its promise
SimReject(what) ==
  /\ simPc' = "dead"
  /\ unhandled' = unhandled \cup {what}
  /\ UNCHANGED <<parseVars, hubVars, connVars, flightVars, sent, argv, waited, simFiles, simI,
                 clock, transcriptHistory, simCalls, inputs, nextBatch,
                 nextCycle, nextId, appended>>

SimSegmentFail ==
  /\ simPc = "segmenting"
  /\ last' = Step("simSegmentFail")
  /\ SimReject("simulation")

\* transcribeChunk(files[i]) resolves: the entry is pushed, and (after the
\* hold-back) summariseWindow is called with the rolling window
SimTranscribed(text) ==
  /\ simPc = "transcribing"
  /\ LET start == clock
         end == clock + argv.chunk
         history == Append(transcriptHistory,
                           [start |-> start, end |-> end, text |-> text])
     IN /\ transcriptHistory' = history
        /\ simCalls' = Append(simCalls,
             [transcriptWindow |-> WindowText(history, end, argv.chunk),
              timeStart |-> start, timeEnd |-> end])
  /\ waited' = waited + WaitMs(argv)
  /\ simPc' = "summarising"
  /\ last' = Step("simTranscribed")
  /\ UNCHANGED <<parseVars, hubVars, connVars, flightVars, sent, argv, simFiles, simI,
                 clock, inputs, nextBatch, nextCycle, nextId, appended,
                 unhandled>>

SimTranscribeFail ==
  /\ simPc = "transcribing"
  /\ last' = Step("simTranscribeFail")
  /\ SimReject("simulation")

\* summariseWindow comes back: on a result the card is broadcast and the
\* loop goes on (or ends with eof); on a throw the async function rejects
SimSummarised(outcome) ==
  /\ simPc = "summarising"
  /\ LET result == WindowCall(outcome)
     IN /\ last' = [op |-> "simSummarised", resp |-> outcome, result |-> result]
        /\ IF result.kind = "ok"
           THEN /\ LET log == broadcast(sent, "chunk", SimChunk(nextId, result.value))
                   IN sent' = IF simI + 1 < simFiles THEN log ELSE SimEnd(log)
                /\ nextId' = nextId + 1
                /\ clock' = clock + argv.chunk
                /\ simI' = simI + 1
                /\ simPc' = IF simI + 1 < simFiles THEN "transcribing" ELSE "done"
                /\ UNCHANGED <<parseVars, hubVars, connVars, flightVars, argv, waited, simFiles,
                               transcriptHistory, simCalls, inputs, nextBatch,
                               nextCycle, appended, unhandled>>
           ELSE SimReject("simulation")

----------------------------------------------------------------------------
(* The adapter on its own: each entry point applied to one response *)

CallSummariseWindow ==
  /\ pWindow = NotRun
  /\ pWindow' = summariseWindow(Envelope(pShape, pPayload))
  /\ UNCHANGED <<pPayload, pShape, pTimer, hubVars, connVars, flightVars, sent,
                 simVars, bookVars>>

CallTimerBasedSummarise ==
  /\ pTimer = NotRun
  /\ pTimer' = timerBasedSummarise(Envelope(pShape, pPayload))
  /\ UNCHANGED <<pPayload, pShape, pWindow, hubVars, connVars, flightVars, sent,
                 simVars, bookVars>>

----------------------------------------------------------------------------
(* Specifications *)

\* A connection just accepted, server.ts:66-84, and nothing in flight
InitConn ==
  /\ audioBuffers = <<>> /\ pcmBuffers = <<>>
  /\ timer = NoTimer /\ timeouts = {}
  /\ summaryTimer = [state |-> "null", ms |-> 0, orphans |-> 0]
  /\ closed = FALSE
  /\ completeTranscript = <<>>
  /\ previousSummary = <<>>
  /\ cfg = DefaultCfg
  /\ runs = {} /\ cycles = {}
  /\ tmpFiles = {} /\ segDirs = {}
  /\ sent = <<>>
  /\ inputs = 0 /\ nextBatch = 1 /\ nextCycle = 1 /\ nextId = 1
  /\ appended = <<>>
  /\ last = Step("init")
  /\ unhandled = {}

InitParseIdle ==
  /\ pPayload = Str(<<>>) /\ pShape = "absent"
  /\ pWindow = NotRun /\ pTimer = NotRun
  /\ clients = <<>>
  /\ received = [v \in Viewers |-> <<>>]
  /\ pub = NoPublish

InitSimIdle ==
  /\ argv = [chunk |-> DefaultChunk, hold |-> DefaultHold,
             speed |-> DefaultSpeed]
  /\ simPc = "off" /\ simFiles = 0 /\ simI = 0 /\ clock = 0 /\ waited = 0
  /\ transcriptHistory = <<>> /\ simCalls = <<>>

\* The live session of one connection
Init == InitParseIdle /\ InitConn /\ InitSimIdle

Next ==
  \/ \E m \in Messages : Receive(m)
  \/ \E h \in timeouts, fsOk \in BOOLEAN : TimerFire(h, fsOk)
  \/ \E fsOk \in BOOLEAN : Close(fsOk)
  \/ \E r \in runs, n \in 0..MaxInputs : SegmentDone(r, n)
  \/ \E r \in runs : SegmentFail(r)
  \/ \E r \in runs, text \in Texts : TranscribeDone(r, text)
  \/ \E r \in runs : TranscribeFail(r)
  \/ SummaryTick
  \/ \E c \in cycles, outcome \in LiveResponses : CycleDone(c, outcome)

Spec == Init /\ [][Next]_vars

\* The simulation pipeline of a process started with --file
InitSim ==
  /\ InitParseIdle /\ InitConn
  /\ argv \in [chunk : ChunkSeconds, hold : HoldSeconds, speed : Speeds]
  /\ simPc = "segmenting" /\ simFiles = 0 /\ simI = 0 /\ clock = 0
  /\ waited = 0
  /\ transcriptHistory = <<>> /\ simCalls = <<>>

NextSim ==
  \/ \E n \in 0..MaxSimFiles : SimSegmented(n)
  \/ SimSegmentFail
  \/ \E text \in Texts : SimTranscribed(text)
  \/ SimTranscribeFail
  \/ \E outcome \in SimResponses : SimSummarised(outcome)

SpecSim == InitSim /\ [][NextSim]_vars

\* The broadcast hub with viewers coming and going
NextHub ==
  \/ \E v \in Viewers : Subscribe(v)
  \/ \E v \in Viewers : Unsubscribe(v)
  \/ \E outcome \in [Range(clients) -> WriteOutcomes] : Publish(outcome)

SpecHub == Init /\ [][NextHub]_vars

\* The adapter's two entry points on every payload in every envelope
InitParse ==
  /\ pPayload \in Payloads /\ pShape \in EnvShapes
  /\ pWindow = NotRun /\ pTimer = NotRun
  /\ clients = <<>>
  /\ received = [v \in Viewers |-> <<>>]
  /\ pub = NoPublish
  /\ InitConn /\ InitSimIdle

NextParse == CallSummariseWindow \/ CallTimerBasedSummarise

SpecParse == InitParse /\ [][NextParse]_vars

----------------------------------------------------------------------------
(* Properties *)

IsPrefix(s, t) == Len(s) <= Len(t) /\ SubSeq(t, 1, Len(s)) = s

ChunkIndexes == {i \in DOMAIN sent : sent[i].event = "chunk"}

\* C1: the running transcript is append-only: in every step its old value
\* is a prefix of its new value, so it never shrinks and text appended
\* earlier keeps its (earlier) offset.
C1_TranscriptAppendOnly ==
  [][IsPrefix(completeTranscript, completeTranscript')]_vars

\* Two flushes have appended text, one after the other
C1_Witness == Len(appended) >= 2 /\ Len(completeTranscript) >= 3

\* C2: the transcript never reorders speech: the batches whose text was
\* appended appear in the order they were drained from the buffer, also when
\* a later batch's processBuffer starts while an earlier one is in flight.
C2_BatchesInDrainOrder ==
  \A i, j \in DOMAIN appended : i < j => appended[i] < appended[j]

\* C3: every chunk a live summary cycle broadcasts carries a non-empty
\* headline, whatever the summariser returned.
C3_NoEmptyHeadlineEmitted ==
  \A i \in ChunkIndexes :
    LET h == sent[i].data.v["headline"]
    IN IsString(h) /\ ~Falsy(h)

\* A cycle has broadcast a card
C3_Witness == last.op = "cycleDone" /\ ChunkIndexes # {}

\* C4: a tick whose transcript holds no non-whitespace token is skipped: no
\* summariser call starts and nothing is broadcast.
C4_EmptyTailSkipsCycle ==
  [][(last'.op \in {"tickSkipped", "tickCall"} /\ Words(completeTranscript) = <<>>)
       => (cycles' = cycles /\ sent' = sent /\ nextCycle' = nextCycle)]_vars

\* A tick was skipped after a segment of silence had been transcribed
C4_Witness ==
  /\ last.op = "tickSkipped"
  /\ \E i \in DOMAIN sent : sent[i].event = "transcript_piece"
  /\ completeTranscript = <<>>

\* The rendering of a broadcast card's headline and bullets
RenderCard(card) ==
  <<"Headline: ">> \o ToStr(card.v["headline"]) \o <<"\nBullets: ">>
    \o (IF IsArray(card.v["bullets"])
        THEN Join(card.v["bullets"].v, <<"; ">>)
        ELSE ToStr(card.v["bullets"]))

\* C5: previousSummary is exactly the rendering of the last card the session
\* emitted, and empty until the first card.
C5_ContextIsLastCard ==
  previousSummary =
    IF ChunkIndexes = {} THEN <<>>
    ELSE RenderCard(sent[CHOOSE i \in ChunkIndexes :
                           \A j \in ChunkIndexes : j <= i].data)

\* C6: when timerBasedSummarise returns a result whose headline is empty,
\* the cycle broadcasts nothing and leaves previousSummary and the running
\* transcript unchanged.
C6_EmptyHeadlineChangesNothing ==
  [][(/\ last'.op = "cycleDone"
      /\ last'.result.kind = "ok"
      /\ last'.result.value.v["headline"] = Str(<<>>))
       => (/\ sent' = sent
           /\ previousSummary' = previousSummary
           /\ completeTranscript' = completeTranscript)]_vars

\* An empty-headline result came back while a context was stored
C6_Witness ==
  /\ last.op = "cycleDone"
  /\ last.result = Ok(TimerResult(CardEmpty))
  /\ previousSummary # <<>>

\* C7: a summariser failure never ends the loop: after summariseWindow has
\* thrown, the simulation still goes on towards eof.
C7_SimulationSurvivesFailure ==
  (last.op = "simSummarised" /\ last.result.kind = "throw") => simPc # "dead"

\* The responses whose JSON lacks a required key
MissingKeyResponses ==
  {Envelope("message", JsonText(c)) : c \in {CardNoEntities, CardNoHeadline}}

\* C8: a response whose JSON lacks a required key is rejected with an error
\* (and so produces no broadcast).
C8_MissingKeyRejected ==
  (last.op = "cycleDone" /\ last.resp \in MissingKeyResponses)
    => last.result.kind = "throw"

\* The three shapes that carry the text as a bare string, as { type, text }
\* and as nested { content: [{ text }] }
ThreeShapes == {"contentArrayString", "message", "contentNested"}

\* C9: for the same payload both entry points return the same result for
\* each of the three envelope shapes.
C9_SameCardForThreeShapes ==
  (pShape \in ThreeShapes /\ pPayload \in {JsonText(c) : c \in WellFormedCards}) =>
    \A s \in ThreeShapes :
      /\ pWindow # NotRun => pWindow = summariseWindow(Envelope(s, pPayload))
      /\ pTimer # NotRun => pTimer = timerBasedSummarise(Envelope(s, pPayload))

\* The shapes that carry no text at all
NoTextShapes == {"absent", "emptyObject", "emptyContent", "refusal"}

\* C10: an envelope without any text makes both entry points fail with a
\* response-shape error, never a JSON-parse error and never a card.
C10_NoTextIsShapeError ==
  pShape \in NoTextShapes =>
    /\ pWindow # NotRun => pWindow = Throw("no textual output found")
    /\ pTimer # NotRun =>
         /\ pTimer.kind = "throw"
         /\ pTimer.err # "Failed to parse timer summariser output as JSON"

\* The steps the two timers of a connection take
TimerSteps == {"timerFire", "tickCall", "tickSkipped", "tickClosed"}

\* C11: after the close event both timers are cancelled: no timeout or
\* interval of the connection is left in the event loop, the ingest-flush
\* timer never fires again, no tick runs and no summariser call begins.
C11_NoTimerAfterClose ==
  [][/\ closed' => (timeouts' = {} /\ summaryTimer'.state # "active")
     /\ closed => (/\ last'.op \notin TimerSteps
                   /\ cycles' \subseteq cycles
                   /\ nextCycle' = nextCycle)]_vars

\* The connection closed with both timers running, and its last flush went
\* on after the close
C11_Witness ==
  /\ closed /\ unhandled = {}
  /\ timer # NoTimer /\ summaryTimer.state = "cleared"
  /\ last.op \in {"segmentDone", "transcribeDone"}

\* C12: once the close handler has run the connection holds no unprocessed
\* audio in either buffer, in whatever order handshake and audio arrived.
C12_CloseDrainsAllAudio ==
  closed => (audioBuffers = <<>> /\ pcmBuffers = <<>>)

\* C13: at most one ingest-flush timeout is pending at any time: one is armed
\* only by a message that is buffered as audio while none is pending, with
\* the flush interval of that moment, and the next only after it has fired.
C13_OneFlushTimerPending ==
  [][/\ Cardinality(timeouts') <= 1
     /\ \A h \in timeouts' \ timeouts :
          /\ timeouts = {}
          /\ last'.op = "audio"
          /\ h.ms = cfg.processIntervalMs
          /\ timer' = h.id]_vars

\* The timer was armed again after it had fired, and more audio came in while
\* it was pending
C13_Witness ==
  /\ timeouts # {} /\ nextBatch >= 2
  /\ Len(audioBuffers) + Len(pcmBuffers) >= 2

\* The steps of the summary interval's callback
TickSteps == {"tickCall", "tickSkipped", "tickClosed"}

C15_ConfigFixedAfterHandshake ==
  [][summaryTimer.state # "null" =>
       (cfg' = cfg /\ summaryTimer'.ms = summaryTimer.ms)]_vars

\* The numeric parameters of a handshake
NumberFields ==
  {"sampleRate", "channels", "clientChunkMs", "summaryWords", "segmentSeconds",
   "processIntervalMs", "summaryIntervalMs"}

\* C16: after a handshake every parameter the message omits is at its
\* documented default, and every parameter it carries has exactly the
\* value given.
C16_HandshakeDefaultsAndValues ==
  (last.op \in {"handshake", "audio"} /\ last.resp.kind = "handshake") =>
    LET h == last.resp.hs
    IN /\ \A f \in NumberFields :
            cfg[f] = IF h[f] = 0 THEN DefaultCfg[f] ELSE h[f]
       /\ cfg.format = IF h.format = "" THEN "null" ELSE h.format

\* The steps of the message handler
MessageSteps == {"handshake", "audio", "badMessage"}

\* C17: a JSON message with kind "handshake", in a text or a binary frame and
\* with whichever optional fields, is taken for the handshake: it sets the
\* config and starts the summary timer, it is not appended to an audio
\* buffer and it does not arm the ingest-flush timer.
C17_HandshakeNeverBuffered ==
  [][(last'.op \in MessageSteps /\ last'.resp.kind = "handshake") =>
       /\ last'.op = "handshake"
       /\ cfg' = ApplyHandshake(cfg, last'.resp.hs)
       /\ TickDue'
       /\ audioBuffers' = audioBuffers /\ pcmBuffers' = pcmBuffers
       /\ timer' = timer /\ timeouts' = timeouts]_vars

\* C18: when a broadcast's write to one subscriber fails, every other
\* subscriber of the set has received the event, the failing subscriber
\* is no longer in the set, and the broadcast returned to its caller
\* without an exception.
C18_BestEffortBroadcast ==
  (last.op = "publish" /\ pub.failing # {}) =>
    /\ \A c \in Range(pub.targets) \ pub.failing :
         /\ received[c] # <<>>
         /\ received[c][Len(received[c])] = sent[Len(sent)]
    /\ \A c \in pub.failing : c \notin Range(clients)
    /\ ~pub.threw

\* The trailing context the claim names: max(30, 2 x chunk) seconds
ContextSeconds == Max(WindowFloorSeconds, 2 * argv.chunk)

Min(a, b) == IF a < b THEN a ELSE b

\* The texts of the history's segments j..i, joined as the window is
SegmentsText(j, i) ==
  JoinTexts([k \in 1..(i - j + 1) |-> transcriptHistory[j + k - 1].text], 1)

\* The seconds of audio the window of call i covers: from the start of the
\* first segment whose text is in the window to the call's timeEnd (0 when
\* the window is no run of segments up to the i-th)
CoveredSeconds(i) ==
  LET from == {j \in 1..i : simCalls[i].transcriptWindow = SegmentsText(j, i)}
  IN IF from = {} THEN 0
     ELSE simCalls[i].timeEnd - transcriptHistory[CHOOSE j \in from : TRUE].start

\* C19 as stated: the window of every summariser call covers max(30, 2 x
\* chunk) seconds of trailing context, never less, also for the first chunk.
C19_WindowAlwaysFull ==
  \A i \in DOMAIN simCalls : CoveredSeconds(i) >= ContextSeconds

\* C19 as amended: the window of every summariser call covers the trailing
\* max(30, 2 x chunk) seconds, or everything from the start of the file while
\* less than that has been played: at least min(timeEnd, max(30, 2 x chunk))
\* seconds, never less.
C19_WindowCoversTrailingContext ==
  \A i \in DOMAIN simCalls :
    CoveredSeconds(i) >= Min(simCalls[i].timeEnd, ContextSeconds)

\* A call whose window is full and leaves out the oldest segment
C19_Witness ==
  \E i \in DOMAIN simCalls :
    /\ CoveredSeconds(i) = ContextSeconds
    /\ simCalls[i].transcriptWindow # SegmentsText(1, i)

C21_EofOnlyEndsSimulation ==
  \A i \in DOMAIN sent :
    sent[i].event = "eof" => (simPc = "done" /\ i = Len(sent))

\* A simulation ended with eof after two cards or more
C21_Witness ==
  /\ simPc = "done" /\ Len(sent) >= 3
  /\ sent[Len(sent)].event = "eof"
  /\ sent[Len(sent) - 1].event = "chunk"

\* The batches whose processBuffer run has ended, one way or the other
EndedBatches == (1..(nextBatch - 1)) \ {r.batch : r \in runs}

\* C22: every processBuffer run cleans up when it ends, also when a
\* segment's transcription or the segmentation itself failed: of an ended
\* run the temp audio file is not left.
C22_TempFilesCleanedUp ==
  \A b \in EndedBatches : b \notin tmpFiles

\* C23: a failure of the segmenter is handled by the caller: no promise
\* rejection is left unhandled, the step leaves the transcript as it is, and
\* the session goes on.
C23_SegmenterFailureHandled ==
  [][last'.op = "segmentFail" =>
       /\ unhandled' = unhandled
       /\ completeTranscript' = completeTranscript
       /\ closed' = closed /\ summaryTimer' = summaryTimer]_vars

\* C24: a transcription failure on one segment does not abort the flush: it
\* is caught, and the run goes on with the next segment when there is one.
C24_TranscriptionFailureSkipsSegment ==
  [][last'.op = "transcribeFail" =>
       /\ unhandled' = unhandled
       /\ \A r \in runs \ runs' :
            r.idx + 1 < r.files =>
              \E q \in runs' : q.batch = r.batch /\ q.idx = r.idx + 1]_vars

\* C25: every card broadcast as a chunk event has at most 5 bullets,
\* whatever the summariser returned.
C25_AtMostFiveBullets ==
  \A i \in ChunkIndexes :
    LET b == sent[i].data.v["bullets"]
    IN IsArray(b) /\ Len(b.v) <= MaxBullets

\* C26: the card summariseWindow returns carries the caller's timeStart and
\* timeEnd in its time fields, for every response, also one that echoes
\* times of its own.
C26_TimeFieldsOverwritten ==
  (last.op = "simSummarised" /\ last.result.kind = "ok"
     /\ IsObjectLike(last.result.value)) =>
    LET call == simCalls[Len(simCalls)]
    IN /\ Get(last.result.value, "time_start") = Num(call.timeStart)
       /\ Get(last.result.value, "time_end") = Num(call.timeEnd)

IsSuffix(s, t) ==
  Len(s) <= Len(t) /\ SubSeq(t, Len(t) - Len(s) + 1, Len(t)) = s

\* C27: each segment's text is appended to the running transcript at once,
\* with its transcript_piece event: after the step that broadcasts the
\* piece the transcript ends with the piece's words, before the next
\* segment of the flush goes to the transcriber.
C27_PieceAppendedAtOnce ==
  [][last'.op = "transcribeDone" =>
       IsSuffix(Words(sent'[Len(sent')].data.text),
                Words(completeTranscript'))]_vars

\* The transcript_piece events of batch b, in the order they were sent
PieceIndexes(b) ==
  {i \in DOMAIN sent :
     sent[i].event = "transcript_piece" /\ sent[i].data.batch = b}

\* C28: within one flush the transcript_piece events go out in segment
\* order, one per transcribed segment: the k-th of them carries index k-1,
\* and the flush is at the segment after the last one it has sent a piece
\* for, which it sends to the transcriber only then.
C28_PiecesInSegmentOrder ==
  /\ \A i \in DOMAIN sent :
       sent[i].event = "transcript_piece" =>
         sent[i].data.index =
           Cardinality({j \in PieceIndexes(sent[i].data.batch) : j < i})
  /\ \A r \in runs :
       /\ Cardinality(PieceIndexes(r.batch)) = r.idx
       /\ r.stage = "transcribing" => r.idx < r.files

\* Two flushes were in progress at once and a flush of two segments has
\* sent both its pieces
C28_Witness ==
  /\ \E b \in 1..(nextBatch - 1) : Cardinality(PieceIndexes(b)) >= 2
  /\ \E i, j \in DOMAIN sent :
       /\ i < j /\ sent[i].event = "transcript_piece"
       /\ sent[j].event = "transcript_piece"
       /\ sent[i].data.batch > sent[j].data.batch

\* C29: the tail a tick passes to timerBasedSummarise is the last
\* summaryWords words of the running transcript joined by single spaces: it
\* has min(summaryWords, number of words) words, they are the last words of
\* the transcript in order, its only whitespace is one space between two
\* words, and the previousSummary passed is the session's previous-summary
\* context at the tick.
C29_TailIsLastWords ==
  [][last'.op = "tickCall" =>
       \A c \in cycles' \ cycles :
         LET w == Words(completeTranscript)
             t == Words(c.lastWords)
             tail == c.lastWords
         IN /\ Len(t) = Min(cfg.summaryWords, Len(w))
            /\ \A k \in 1..Len(t) : t[k] = w[Len(w) - Len(t) + k]
            /\ \A k \in DOMAIN tail :
                 IsWs(tail[k]) =>
                   /\ tail[k] = " " /\ 1 < k /\ k < Len(tail)
                   /\ ~IsWs(tail[k + 1])
            /\ c.maxWords = cfg.summaryWords
            /\ c.previousSummary = previousSummary]_vars

\* A tick has cut a transcript of more words down to its last summaryWords
C29_Witness ==
  \E c \in cycles :
    /\ Len(Words(c.lastWords)) = c.maxWords
    /\ Len(Words(completeTranscript)) > c.maxWords

\* Another tick has passed a transcript of fewer words whole
C29_Whole ==
  \E c \in cycles :
    /\ Len(Words(c.lastWords)) < c.maxWords
    /\ Words(c.lastWords) = Words(completeTranscript)

\* The k-th smallest member of a set of indexes
Nth(S, k) == CHOOSE j \in S : Cardinality({x \in S : x < j}) = k - 1

\* The log entries that end after windowStart, for a call that ends at end
InWindow(history, end) ==
  {j \in DOMAIN history : history[j].end > Max(0, end - ContextSeconds)}

\* C30: the simulation's log is append-only, and at every step the new
\* (start, end, text) entry is appended first and the text given to
\* summariseWindow is the texts, in log order, of exactly the entries of
\* the log (the new one among them) whose end is greater than
\* windowStart = max(0, end - max(30, 2 x chunk)).
C30_WindowFromLog ==
  [][/\ IsPrefix(transcriptHistory, transcriptHistory')
     /\ last'.op = "simTranscribed" =>
          LET call == simCalls'[Len(simCalls')]
              n == Len(transcriptHistory')
              S == InWindow(transcriptHistory', call.timeEnd)
          IN /\ n = Len(transcriptHistory) + 1
             /\ transcriptHistory'[n].start = call.timeStart
             /\ transcriptHistory'[n].end = call.timeEnd
             /\ n \in S
             /\ call.transcriptWindow =
                  JoinTexts([k \in 1..Cardinality(S) |->
                               transcriptHistory'[Nth(S, k)].text], 1)]_vars

\* A call whose window leaves out an entry that ends exactly at windowStart
\* and holds the two after it
C30_Witness ==
  \E i \in DOMAIN simCalls :
    \E j \in 1..(i - 2) :
      /\ transcriptHistory[j].end = simCalls[i].timeEnd - ContextSeconds
      /\ InWindow(SubSeq(transcriptHistory, 1, i), simCalls[i].timeEnd)
           = (j + 1)..i
      /\ simCalls[i].transcriptWindow = SegmentsText(j + 1, i)

\* The runs a processBuffer call of this step has started
NewRuns == runs' \ runs

\* C31: a flush writes a 44-byte WAV header in front of the bytes exactly
\* when the session's format is raw PCM (s16le); the header holds the
\* session's channel count and sample rate, bit depth 16, a data length
\* equal to the PCM bytes of the batch, RIFF size 36 + data length and byte
\* rate sampleRate x channels x 2.
C31_WavHeaderIffPcm ==
  [][last'.op \in {"timerFire", "close"} =>
       \A r \in NewRuns :
         /\ r.file.wav <=> cfg.format = "s16le"
         /\ r.file.wav =>
              /\ r.file.header.bytes = 44
              /\ r.file.header.channels = cfg.channels
              /\ r.file.header.sampleRate = cfg.sampleRate
              /\ r.file.header.bitsPerSample = 16
              /\ r.file.header.dataSize = SumLens(pcmBuffers)
              /\ r.file.header.riffSize = 36 + SumLens(pcmBuffers)
              /\ r.file.header.byteRate = cfg.sampleRate * cfg.channels * 2]_vars

\* The chunk cards among the events broadcast so far
ChunkCount(log) ==
  Cardinality({i \in DOMAIN log : log[i].event = "chunk"})

\* C32: once the connection has closed no chunk card is broadcast for the
\* session, not even by a summary cycle whose call was in flight at the
\* close, and the previous-summary context is not modified any more.
C32_NoCardAfterClose ==
  [][closed =>
       /\ ChunkCount(sent') = ChunkCount(sent)
       /\ previousSummary' = previousSummary]_vars

\* C33: the summary cycles of a session do not overlap: no tick starts a
\* timerBasedSummarise call while the call of an earlier cycle is pending.
C33_CyclesDoNotOverlap == Cardinality(cycles) <= 1

RECURSIVE Occurs(_, _)
\* Whether the words ws stand next to one another, in order, in the words ts
Occurs(ws, ts) ==
  IF Len(ws) > Len(ts) THEN FALSE
  ELSE IF SubSeq(ts, 1, Len(ws)) = ws THEN TRUE
  ELSE Occurs(ws, Tail(ts))

\* C34: every fragment text with words in it that was broadcast as a
\* transcript_piece event becomes part of the running transcript: once the
\* flush it belongs to has ended, its words are in the transcript, also
\* when a later segment of the flush failed to transcribe.
C34_BroadcastPiecesReachTranscript ==
  \A i \in DOMAIN sent :
    (/\ sent[i].event = "transcript_piece"
     /\ \A r \in runs : r.batch # sent[i].data.batch) =>
      Occurs(Words(sent[i].data.text), Words(completeTranscript))

\* C35: in an open session, whenever unflushed audio is buffered the
\* ingest-flush timeout whose handle is in timer is pending in the event
\* loop, so the audio will be drained by a flush.
C35_BufferedAudioHasTimer ==
  (~closed /\ ~NothingToFlush) => \E h \in timeouts : h.id = timer

\* C36: the segmenter is never invoked on a zero-byte batch: every flush
\* that reaches segmentFile has drained at least one buffered audio message
\* into its temp file.
C36_NoEmptyBatchSegmented ==
  \A r \in runs :
    r.stage = "segmenting" => (r.file.messages >= 1 /\ r.file.dataSize > 0)

\* The summary intervals of the session that the event loop runs
ActiveIntervals ==
  (IF summaryTimer.state = "active" THEN 1 ELSE 0) + summaryTimer.orphans

\* C37: at most one summary interval is active for the session at any
\* time, also after repeated handshakes on the connection (a handshake
\* cancels the interval of the one before), and none is active after close.
C37_OneSummaryInterval ==
  /\ ActiveIntervals <= 1
  /\ closed => ActiveIntervals = 0

\* A second handshake has just restarted the summary timer: the raw-PCM
\* handshake set the period, the container one after it kept it
C37_Witness ==
  /\ last.op = "handshake"
  /\ cfg.format = "webm" /\ cfg.sampleRate = 48000
  /\ summaryTimer.ms = 5000
  /\ ActiveIntervals = 1

====
